---- MODULE Spec2Model ----
(***************************************************************************)
(* Hugging Face provider of bifrost: alias resolution, request             *)
(* preparation, response metadata and the TextCompletionStream relay.      *)
(*                                                                         *)
(* Strings are sequences of characters (so that strings.TrimSpace is       *)
(* computed, not assumed); a Go pointer that may be nil is a sequence of   *)
(* length 0 (nil) or 1 (the pointee).                                      *)
(***************************************************************************)
EXTENDS Integers, Sequences, FiniteSets, TLC

\* ------------------------------------------------------------------ bounds
MaxNameLen == 2
MaxMsgs == 3
MaxUpCap == 2

\* ----------------------------------------------------------------- strings
Chars == {"a", "b", " "}

Names == UNION {[1..n -> Chars] : n \in 0..MaxNameLen}

EmptyStr == <<>>

RECURSIVE TrimLeft(_)
TrimLeft(s) ==
    IF s = <<>> THEN s
    ELSE IF Head(s) = " " THEN TrimLeft(Tail(s)) ELSE s

RECURSIVE TrimRight(_)
TrimRight(s) ==
    IF s = <<>> THEN s
    ELSE IF s[Len(s)] = " " THEN TrimRight(SubSeq(s, 1, Len(s) - 1)) ELSE s

\* strings.TrimSpace
TrimSpace(s) == TrimRight(TrimLeft(s))

\* -------------------------------------------------------------------- keys
\* schemas.Key: HuggingFaceKeyConfig is nil (<<>>) or holds a Deployments map
\* (a function from requested model names to deployment names; the nil map
\* and the empty map are both the function with the empty domain).
AliasKeys == {<<"a">>, <<"b">>}

DeploymentMaps == UNION {[D -> Names] : D \in SUBSET AliasKeys}

Keys ==
    {[HuggingFaceKeyConfig |-> <<>>]} \cup
    {[HuggingFaceKeyConfig |-> <<[Deployments |-> d]>>] : d \in DeploymentMaps}

\* requested model names a caller may pass
ModelNames == {<<"a">>, <<"b">>, <<>>}

\* ------------------------------------------------------- resolveModelAlias
resolveModelAlias_NoTrim(key, requestedModel) ==
    IF key.HuggingFaceKeyConfig = <<>>
       \/ Cardinality(DOMAIN key.HuggingFaceKeyConfig[1].Deployments) = 0
    THEN <<requestedModel, FALSE>>
    ELSE LET deployments == key.HuggingFaceKeyConfig[1].Deployments IN
         IF requestedModel \in DOMAIN deployments
            /\ deployments[requestedModel] # EmptyStr
         THEN <<deployments[requestedModel], deployments[requestedModel] # requestedModel>>
         ELSE <<requestedModel, FALSE>>

resolveModelAlias(key, requestedModel) ==
    IF key.HuggingFaceKeyConfig = <<>>
       \/ Cardinality(DOMAIN key.HuggingFaceKeyConfig[1].Deployments) = 0
    THEN <<requestedModel, FALSE>>
    ELSE LET deployments == key.HuggingFaceKeyConfig[1].Deployments IN
         IF requestedModel \in DOMAIN deployments
            /\ TrimSpace(deployments[requestedModel]) # EmptyStr
         THEN <<deployments[requestedModel], deployments[requestedModel] # requestedModel>>
         ELSE <<requestedModel, FALSE>>

\* --------------------------------------------------------------- responses
\* schemas.RequestType values used by this provider
ChatCompletionRequest == "chat_completion"
ChatCompletionStreamRequest == "chat_completion_stream"
TextCompletionRequest == "text_completion"
TextCompletionStreamRequest == "text_completion_stream"
EmbeddingRequest == "embedding"
ResponsesRequest == "responses"
ResponsesStreamRequest == "responses_stream"
ListModelsRequest == "list_models"
SpeechRequest == "speech"
SpeechStreamRequest == "speech_stream"
TranscriptionRequest == "transcription"
TranscriptionStreamRequest == "transcription_stream"

HuggingFace == "huggingface"

\* schemas.BifrostResponseExtraFields
ExtraFields(provider, requested, deployment, requestType, latency) ==
    [Provider |-> provider, ModelRequested |-> requested,
     ModelDeployment |-> deployment, RequestType |-> requestType,
     Latency |-> latency]

decorateResponseMetadata_KeepsPrevious(extra, requestedModel, resolvedModel) ==
    LET e1 == IF requestedModel # EmptyStr
              THEN [extra EXCEPT !.ModelRequested = requestedModel]
              ELSE extra
    IN IF resolvedModel # EmptyStr /\ resolvedModel # requestedModel
       THEN [e1 EXCEPT !.ModelDeployment = resolvedModel]
       ELSE [e1 EXCEPT !.ModelDeployment = extra.ModelRequested]

\* decorateResponseMetadata on a non-nil *BifrostResponseExtraFields (every
\* caller passes the address of a struct field)
decorateResponseMetadata(extra, requestedModel, resolvedModel) ==
    LET e1 == IF requestedModel # EmptyStr
              THEN [extra EXCEPT !.ModelRequested = requestedModel]
              ELSE extra
    IN IF resolvedModel # EmptyStr /\ resolvedModel # requestedModel
       THEN [e1 EXCEPT !.ModelDeployment = resolvedModel]
       ELSE e1

\* schemas.BifrostResponseChoice: the three embedded choice pointers, each
\* reduced to the string the provider reads from it (<<>> when any pointer on
\* the way to it is nil).
Choice(index, finish, logprobs, message, delta, text) ==
    [Index |-> index, FinishReason |-> finish, LogProbs |-> logprobs,
     MessageContent |-> message, DeltaContent |-> delta, Text |-> text]

ChoiceText_DeltaFirst(choice) ==
    IF choice.DeltaContent # <<>> THEN choice.DeltaContent[1]
    ELSE IF choice.MessageContent # <<>> THEN choice.MessageContent[1]
    ELSE ""

\* the switch of convertChatToTextResponse, lines 196-204
ChoiceText(choice) ==
    IF choice.MessageContent # <<>> THEN choice.MessageContent[1]
    ELSE IF choice.DeltaContent # <<>> THEN choice.DeltaContent[1]
    ELSE ""

ConvertChoice_NoLogProbs(choice) ==
    Choice(choice.Index, choice.FinishReason, <<>>, <<>>, <<>>,
           <<ChoiceText(choice)>>)

ConvertChoice(choice) ==
    Choice(choice.Index, choice.FinishReason, choice.LogProbs, <<>>, <<>>,
           <<ChoiceText(choice)>>)

\* convertChatToTextResponse on a non-nil chat response
convertChatToTextResponse(chatResp, requestedModel, resolvedModel) ==
    [ID |-> chatResp.ID,
     Object |-> "text_completion",
     Model |-> chatResp.Model,
     SystemFingerprint |-> chatResp.SystemFingerprint,
     Choices |-> [i \in 1..Len(chatResp.Choices) |-> ConvertChoice(chatResp.Choices[i])],
     Usage |-> chatResp.Usage,
     ExtraFields |-> ExtraFields(chatResp.ExtraFields.Provider, requestedModel,
                                 resolvedModel, TextCompletionRequest,
                                 chatResp.ExtraFields.Latency)]

\* ---------------------------------------------------------------- requests
\* A request object (*schemas.BifrostChatRequest and its siblings): its kind,
\* its Model and the payload the clone shares with the original.
Request(kind, model) == [Kind |-> kind, Model |-> model, Payload |-> "payload"]

RequestKinds == {"chat", "text", "embedding", "responses"}

\* address of the caller's request in the heap
CallerReq == 1

\* prepareXRequest: heap is the sequence of request objects, addr the request
\* pointer. Returns the heap after the call, the returned pointer and
\* resolvedModel.
prepareRequest_InPlace(h, addr, k) ==
    LET r == resolveModelAlias(k, h[addr].Model) IN
    [heap |-> [h EXCEPT ![addr].Model = r[1]], ret |-> addr, resolved |-> r[1]]

prepareRequest(h, addr, k) ==
    LET r == resolveModelAlias(k, h[addr].Model) IN
    IF ~r[2]
    THEN [heap |-> h, ret |-> addr, resolved |-> r[1]]
    ELSE [heap |-> Append(h, [h[addr] EXCEPT !.Model = r[1]]),
          ret |-> Len(h) + 1, resolved |-> r[1]]

prepareChatRequest(h, addr, k) == prepareRequest(h, addr, k)

prepareTextRequest(h, addr, k) == prepareRequest(h, addr, k)

prepareEmbeddingRequest(h, addr, k) == prepareRequest(h, addr, k)

\* convertTextToChatRequest: textReq.ToBifrostChatRequest() allocates a chat
\* request carrying the text request's model
convertTextToChatRequest(h, addr) ==
    [heap |-> Append(h, Request("chat", h[addr].Model)), ret |-> Len(h) + 1]

\* ------------------------------------------------------------------- state
VARIABLES
    key,          \* the schemas.Key of the call
    provider,     \* the HuggingFaceProvider: its customProviderConfig
    catalog,      \* the ListModels call in progress and its per-key queries
    heap,         \* request objects; heap[CallerReq] is the caller's request
    call,         \* the handler or function invoked and what it returned
    resolvedModel,\* resolvedModel captured by the relay goroutine
    chatStream,   \* buffer of the upstream channel
    upCap,        \* cap(chatStream)
    upClosed,     \* the upstream producer closed chatStream
    textStream,   \* buffer of the output channel
    outCap,       \* bufferSize
    outClosed,    \* close(textStream) ran
    pc,           \* relay goroutine: "none", "recv", "send", "done"
    streamMsg,    \* the message the goroutine holds between receive and send
    sent,         \* history: every message the producer sent, in order
    received,     \* history: every message the caller received, in order
    nRead,        \* history: number of messages the goroutine received
    closeCount,   \* history: number of close(textStream) calls
    sendOnClosed, \* history: a send on the closed output channel happened
    stopped       \* the caller cancelled and no longer reads textStream

vars == <<key, provider, catalog, heap, call, resolvedModel, chatStream, upCap, upClosed,
          textStream, outCap, outClosed, pc, streamMsg, sent, received,
          nRead, closeCount, sendOnClosed, stopped>>

streamVars == <<resolvedModel, chatStream, upCap, upClosed, textStream,
                outCap, outClosed, pc, streamMsg, sent, received, nRead,
                closeCount, sendOnClosed, stopped>>

\* call: op is the handler or function invoked, err the error it returned
\* (<<>> is nil), transport the model name of the request handed to the
\* transport (<<>> when no request was sent), resp the response returned
\* (<<>> is nil), ret the request pointer a prepare function returned,
\* resolved and changed the results of alias resolution.
Call(op, err, transport, resp, ret, resolved, changed) ==
    [op |-> op, err |-> err, transport |-> transport, resp |-> resp,
     ret |-> ret, resolved |-> resolved, changed |-> changed]

NoCall == Call("none", <<>>, <<>>, <<>>, 0, EmptyStr, FALSE)

\* HuggingFaceProvider.customProviderConfig: nil (<<>>) or a configuration
\* naming the custom provider
Provider(custom) == [customProviderConfig |-> custom]

DefaultProvider == Provider(<<>>)

Providers == {DefaultProvider, Provider(<<"my-hf">>)}

\* GetProviderKey: providerUtils.GetProviderName(schemas.HuggingFace,
\* customProviderConfig) is the custom provider's name when one is configured
GetProviderKey(p) ==
    IF p.customProviderConfig = <<>> THEN HuggingFace
    ELSE p.customProviderConfig[1]

\* The state of a ListModels call. phase: "none" before the call, "fanout"
\* while the per-key queries run, "done" when the call has returned; keys and
\* request are the arguments (request after line 53); pending the indices of
\* the keys whose query has not finished; queries the finished queries in
\* the order they finished; merged the aggregated models; response and err
\* what the call returned (<<>> is nil).
\* the request the caller handed to ListModels (<<>> for nil): the object as
\* it was at the call and as it is now
CallerRequest(before, now) == [before |-> before, now |-> now]

Catalog(phase, keys, caller, request, pending, queries, merged, response, err) ==
    [phase |-> phase, keys |-> keys, caller |-> caller, request |-> request,
     pending |-> pending,
     queries |-> queries, merged |-> merged, response |-> response, err |-> err]

\* no ListModels call has been made
NoCatalog == Catalog("none", <<>>, CallerRequest(<<>>, <<>>), <<>>, {}, <<>>, <<>>, <<>>, <<>>)

\* keys and models of the handler specification
HandlerKeys ==
    {[HuggingFaceKeyConfig |-> <<>>],
     [HuggingFaceKeyConfig |-> <<[Deployments |-> (<<"a">> :> <<"b">>)]>>]}

HandlerModels == {<<"a">>, <<"b">>}

InitWith(K, M, P) ==
    /\ key \in K
    /\ provider \in P
    /\ catalog = NoCatalog
    /\ \E kind \in RequestKinds, m \in M : heap = <<Request(kind, m)>>
    /\ call = NoCall
    /\ resolvedModel = EmptyStr
    /\ chatStream = <<>>
    /\ upCap = 0
    /\ upClosed = FALSE
    /\ textStream = <<>>
    /\ outCap = 0
    /\ outClosed = FALSE
    /\ pc = "none"
    /\ streamMsg = <<>>
    /\ sent = <<>>
    /\ received = <<>>
    /\ nRead = 0
    /\ closeCount = 0
    /\ sendOnClosed = FALSE
    /\ stopped = FALSE

Init == InitWith(HandlerKeys, HandlerModels, {DefaultProvider})

\* --------------------------------------------------------- stream messages
\* A channel element is a *schemas.BifrostStream: <<>> is the nil pointer,
\* <<m>> points at the message m. ptr is the identity of the pointee (the
\* position at which the producer sent it).
StreamMessage(ptr, chat, text, err) ==
    [ptr |-> ptr, BifrostChatResponse |-> chat,
     BifrostTextCompletionResponse |-> text, BifrostError |-> err]

\* chat chunks the upstream handler decodes: one choice carrying a final
\* message content, a delta content, both or neither
ChunkChoices ==
    {Choice(0, "stop", <<>>, msg, delta, <<>>) :
        msg \in {<<>>, <<"final">>}, delta \in {<<>>, <<"delta">>}}

ChatChunk(choice, model) ==
    [ID |-> "chatcmpl-1", Object |-> "chat.completion.chunk", Model |-> model,
     SystemFingerprint |-> "fp-1", Choices |-> <<choice>>, Usage |-> "usage",
     ExtraFields |-> ExtraFields(HuggingFace, model, EmptyStr,
                                 ChatCompletionStreamRequest, 1)]

\* what the upstream producer may put on chatStream as its ptr-th message: a
\* nil pointer, a message with no chat payload (an error/control marker), or
\* a chat chunk
UpstreamMessages(ptr, model) ==
    {<<>>} \cup
    {<<StreamMessage(ptr, <<>>, <<>>, <<"upstream error">>)>>} \cup
    {<<StreamMessage(ptr, <<ChatChunk(c, model)>>, <<>>, <<>>)>> : c \in ChunkChoices}

\* ---------------------------------------------------------------- the relay
BufferSize_NoMinimum(capacity) == capacity

\* bufferSize, lines 73-76
BufferSize(capacity) == IF capacity = 0 THEN 1 ELSE capacity

RelayBody_ResolvedOnFirst(msg, requestedModel, resolved) ==
    IF msg.BifrostChatResponse # <<>>
    THEN LET deployment == IF msg.ptr = 1 THEN resolved ELSE requestedModel
             textResp == convertChatToTextResponse(msg.BifrostChatResponse[1],
                                                   requestedModel, deployment)
             tagged == [textResp EXCEPT !.ExtraFields.RequestType =
                                            TextCompletionStreamRequest]
             decorated == [tagged EXCEPT !.ExtraFields =
                              decorateResponseMetadata(tagged.ExtraFields,
                                                       requestedModel, deployment)]
         IN [msg EXCEPT !.BifrostTextCompletionResponse = <<decorated>>,
                        !.BifrostChatResponse = <<>>]
    ELSE msg

\* lines 87-95: the loop body applied to a non-nil message
RelayBody(msg, requestedModel, resolved) ==
    IF msg.BifrostChatResponse # <<>>
    THEN LET textResp == convertChatToTextResponse(msg.BifrostChatResponse[1],
                                                   requestedModel, resolved)
             tagged == [textResp EXCEPT !.ExtraFields.RequestType =
                                            TextCompletionStreamRequest]
             decorated == [tagged EXCEPT !.ExtraFields =
                              decorateResponseMetadata(tagged.ExtraFields,
                                                       requestedModel, resolved)]
         IN [msg EXCEPT !.BifrostTextCompletionResponse = <<decorated>>,
                        !.BifrostChatResponse = <<>>]
    ELSE msg

\* lines 82-85: what the goroutine does with the element it received; a nil
\* element is skipped (continue), any other is transformed and held for the
\* send of line 97
Receive(elem) ==
    /\ nRead' = nRead + 1
    /\ IF elem = <<>>
       THEN /\ pc' = "recv"
            /\ streamMsg' = <<>>
       ELSE /\ pc' = "send"
            /\ streamMsg' = <<RelayBody(elem[1], heap[CallerReq].Model, resolvedModel)>>

\* the upstream producer sends on a buffered chatStream
UpSend ==
    /\ pc # "none"
    /\ ~upClosed
    /\ upCap > 0
    /\ Len(chatStream) < upCap
    /\ Len(sent) < MaxMsgs
    /\ \E m \in UpstreamMessages(Len(sent) + 1, resolvedModel) :
          /\ chatStream' = Append(chatStream, m)
          /\ sent' = Append(sent, m)
    /\ UNCHANGED <<key, provider, catalog, heap, call, resolvedModel, upCap, upClosed, textStream,
                   outCap, outClosed, pc, streamMsg, received, nRead,
                   closeCount, sendOnClosed, stopped>>

\* the upstream producer sends on an unbuffered chatStream: the send and the
\* goroutine's receive (line 82) are one rendezvous
UpSendUnbuffered ==
    /\ pc = "recv"
    /\ ~upClosed
    /\ upCap = 0
    /\ Len(sent) < MaxMsgs
    /\ \E m \in UpstreamMessages(Len(sent) + 1, resolvedModel) :
          /\ sent' = Append(sent, m)
          /\ Receive(m)
    /\ UNCHANGED <<key, provider, catalog, heap, call, resolvedModel, chatStream, upCap, upClosed,
                   textStream, outCap, outClosed, received, closeCount,
                   sendOnClosed, stopped>>

\* the upstream producer closes chatStream (end of the response, or the
\* transport observed the cancellation)
UpClose ==
    /\ pc # "none"
    /\ ~upClosed
    /\ upClosed' = TRUE
    /\ UNCHANGED <<key, provider, catalog, heap, call, resolvedModel, chatStream, upCap, textStream,
                   outCap, outClosed, pc, streamMsg, sent, received, nRead,
                   closeCount, sendOnClosed, stopped>>

\* line 82: the goroutine receives the next buffered element
RelayRecv ==
    /\ pc = "recv"
    /\ chatStream # <<>>
    /\ chatStream' = Tail(chatStream)
    /\ Receive(Head(chatStream))
    /\ UNCHANGED <<key, provider, catalog, heap, call, resolvedModel, upCap, upClosed, textStream,
                   outCap, outClosed, sent, received, closeCount, sendOnClosed,
                   stopped>>

CanSend_Always == TRUE

\* line 97: textStream <- streamMsg, blocked while the buffer is full
CanSend == Len(textStream) < outCap

RelaySend ==
    /\ pc = "send"
    /\ CanSend
    /\ textStream' = Append(textStream, streamMsg)
    /\ sendOnClosed' = (sendOnClosed \/ outClosed)
    /\ pc' = "recv"
    /\ streamMsg' = <<>>
    /\ UNCHANGED <<key, provider, catalog, heap, call, resolvedModel, chatStream, upCap, upClosed,
                   outCap, outClosed, sent, received, nRead, closeCount, stopped>>

RangeEnds_Drained == chatStream = <<>>

\* lines 81-82: the range loop ends when chatStream is closed and drained;
\* the deferred close(textStream) runs as the goroutine returns
RangeEnds == upClosed /\ chatStream = <<>>

RelayClose ==
    /\ pc = "recv"
    /\ RangeEnds
    /\ outClosed' = TRUE
    /\ closeCount' = closeCount + 1
    /\ pc' = "done"
    /\ UNCHANGED <<key, provider, catalog, heap, call, resolvedModel, chatStream, upCap, upClosed,
                   textStream, outCap, streamMsg, sent, received, nRead,
                   sendOnClosed, stopped>>

\* the caller receives from textStream
CallerRecv ==
    /\ pc # "none"
    /\ ~stopped
    /\ textStream # <<>>
    /\ received' = Append(received, Head(textStream))
    /\ textStream' = Tail(textStream)
    /\ UNCHANGED <<key, provider, catalog, heap, call, resolvedModel, chatStream, upCap, upClosed,
                   outCap, outClosed, pc, streamMsg, sent, nRead, closeCount,
                   sendOnClosed, stopped>>

\* the caller cancels the request and stops reading textStream
CallerCancel ==
    /\ pc # "none"
    /\ ~stopped
    /\ stopped' = TRUE
    /\ UNCHANGED <<key, provider, catalog, heap, call, resolvedModel, chatStream, upCap, upClosed,
                   textStream, outCap, outClosed, pc, streamMsg, sent, received,
                   nRead, closeCount, sendOnClosed>>

\* ---------------------------------------------------------------- handlers
\* providerUtils.CheckOperationAllowed and the transport are collaborators:
\* whether the operation is allowed, whether the transport succeeds and what
\* the upstream answers are inputs of each handler.
OperationNotAllowed == "operation not allowed"
TransportFailure == "transport failure"

\* the chat response HandleOpenAIChatCompletionRequest decodes for a request
\* whose model is m
UpstreamChatResponses(m) ==
    {[ID |-> "chatcmpl-1", Object |-> "chat.completion", Model |-> m,
      SystemFingerprint |-> "fp-1", Choices |-> <<c>>, Usage |-> "usage",
      ExtraFields |-> ExtraFields(HuggingFace, requested, EmptyStr,
                                  ChatCompletionRequest, 1)] :
        c \in ChunkChoices, requested \in {EmptyStr, m}}

UpstreamResponsesResponses(m) ==
    {[ID |-> "resp-1", Object |-> "response", Model |-> m,
      ExtraFields |-> ExtraFields(HuggingFace, requested, EmptyStr,
                                  ResponsesRequest, 1)] :
        requested \in {EmptyStr, m}}

Idle == call = NoCall /\ pc = "none"

\* ChatCompletion, part_001 lines 12-36
ChatCompletion ==
    /\ Idle
    /\ heap[CallerReq].Kind = "chat"
    /\ \E allowed \in BOOLEAN, ok \in BOOLEAN :
        IF ~allowed
        THEN /\ call' = Call("ChatCompletion", <<OperationNotAllowed>>, <<>>, <<>>,
                             0, EmptyStr, FALSE)
             /\ heap' = heap
        ELSE LET p == prepareChatRequest(heap, CallerReq, key)
                 model == p.heap[p.ret].Model
             IN /\ heap' = p.heap
                /\ IF ~ok
                   THEN call' = Call("ChatCompletion", <<TransportFailure>>,
                                     <<model>>, <<>>, p.ret, p.resolved, FALSE)
                   ELSE \E response \in UpstreamChatResponses(model) :
                          call' = Call("ChatCompletion", <<>>, <<model>>,
                                       <<[response EXCEPT !.ExtraFields =
                                            decorateResponseMetadata(
                                               response.ExtraFields,
                                               heap[CallerReq].Model, p.resolved)]>>,
                                       p.ret, p.resolved, FALSE)
    /\ UNCHANGED <<key, provider, catalog, streamVars>>

\* ChatCompletionStream, part_001 lines 39-61: the stream is the handler's
ChatCompletionStream ==
    /\ Idle
    /\ heap[CallerReq].Kind = "chat"
    /\ \E allowed \in BOOLEAN :
        IF ~allowed
        THEN /\ call' = Call("ChatCompletionStream", <<OperationNotAllowed>>, <<>>,
                             <<>>, 0, EmptyStr, FALSE)
             /\ heap' = heap
        ELSE LET p == prepareChatRequest(heap, CallerReq, key) IN
             /\ heap' = p.heap
             /\ call' = Call("ChatCompletionStream", <<>>, <<p.heap[p.ret].Model>>,
                             <<>>, p.ret, p.resolved, FALSE)
    /\ UNCHANGED <<key, provider, catalog, streamVars>>

\* TextCompletion, text.go lines 13-41
TextCompletion ==
    /\ Idle
    /\ heap[CallerReq].Kind = "text"
    /\ \E allowed \in BOOLEAN, ok \in BOOLEAN :
        IF ~allowed
        THEN /\ call' = Call("TextCompletion", <<OperationNotAllowed>>, <<>>, <<>>,
                             0, EmptyStr, FALSE)
             /\ heap' = heap
        ELSE LET c == convertTextToChatRequest(heap, CallerReq)
                 p == prepareChatRequest(c.heap, c.ret, key)
                 model == p.heap[p.ret].Model
             IN /\ heap' = p.heap
                /\ IF ~ok
                   THEN call' = Call("TextCompletion", <<TransportFailure>>,
                                     <<model>>, <<>>, p.ret, p.resolved, FALSE)
                   ELSE \E chatResponse \in UpstreamChatResponses(model) :
                          call' = Call("TextCompletion", <<>>, <<model>>,
                                       <<convertChatToTextResponse(chatResponse,
                                            heap[CallerReq].Model, p.resolved)>>,
                                       p.ret, p.resolved, FALSE)
    /\ UNCHANGED <<key, provider, catalog, streamVars>>

\* TextCompletionStream, text.go lines 44-102, up to the start of the
\* goroutine; capacity is cap(chatStream) of the channel the handler returns
TextCompletionStream ==
    /\ Idle
    /\ heap[CallerReq].Kind = "text"
    /\ \E allowed \in BOOLEAN, ok \in BOOLEAN, capacity \in 0..MaxUpCap :
        IF ~allowed
        THEN /\ call' = Call("TextCompletionStream", <<OperationNotAllowed>>, <<>>,
                             <<>>, 0, EmptyStr, FALSE)
             /\ heap' = heap
             /\ UNCHANGED <<resolvedModel, upCap, outCap, pc>>
        ELSE LET c == convertTextToChatRequest(heap, CallerReq)
                 p == prepareChatRequest(c.heap, c.ret, key)
                 model == p.heap[p.ret].Model
             IN /\ heap' = p.heap
                /\ IF ~ok
                   THEN /\ call' = Call("TextCompletionStream", <<TransportFailure>>,
                                        <<model>>, <<>>, p.ret, p.resolved, FALSE)
                        /\ UNCHANGED <<resolvedModel, upCap, outCap, pc>>
                   ELSE /\ call' = Call("TextCompletionStream", <<>>, <<model>>,
                                        <<>>, p.ret, p.resolved, FALSE)
                        /\ resolvedModel' = p.resolved
                        /\ upCap' = capacity
                        /\ outCap' = BufferSize(capacity)
                        /\ pc' = "recv"
    /\ UNCHANGED <<key, provider, catalog, chatStream, upClosed, textStream, outClosed, streamMsg,
                   sent, received, nRead, closeCount, sendOnClosed, stopped>>

UpstreamAPIError == "upstream api error"

\* Embedding, part_000 lines 16-106: the model travels in the request URL
Embedding ==
    /\ Idle
    /\ heap[CallerReq].Kind = "embedding"
    /\ \E allowed \in BOOLEAN, outcome \in {"failed", "status", "ok"} :
        IF ~allowed
        THEN /\ call' = Call("Embedding", <<OperationNotAllowed>>, <<>>, <<>>,
                             0, EmptyStr, FALSE)
             /\ heap' = heap
        ELSE LET p == prepareEmbeddingRequest(heap, CallerReq, key)
                 extra == ExtraFields(GetProviderKey(provider), EmptyStr,
                                      EmptyStr, EmbeddingRequest, 1)
             IN /\ heap' = p.heap
                /\ call' =
                     CASE outcome = "failed" ->
                            Call("Embedding", <<TransportFailure>>, <<p.resolved>>,
                                 <<>>, p.ret, p.resolved, FALSE)
                       [] outcome = "status" ->
                            Call("Embedding", <<UpstreamAPIError>>, <<p.resolved>>,
                                 <<>>, p.ret, p.resolved, FALSE)
                       [] outcome = "ok" ->
                            Call("Embedding", <<>>, <<p.resolved>>,
                                 <<[Object |-> "list", Model |-> p.resolved,
                                    ExtraFields |->
                                       decorateResponseMetadata(extra,
                                          heap[CallerReq].Model, p.resolved)]>>,
                                 p.ret, p.resolved, FALSE)
    /\ UNCHANGED <<key, provider, catalog, streamVars>>

\* Responses, responses.go lines 12-44: the alias is resolved on a fresh
\* embedding request; the caller's request is what the handler sends
Responses ==
    /\ Idle
    /\ heap[CallerReq].Kind = "responses"
    /\ \E allowed \in BOOLEAN, ok \in BOOLEAN :
        IF ~allowed
        THEN /\ call' = Call("Responses", <<OperationNotAllowed>>, <<>>, <<>>,
                             0, EmptyStr, FALSE)
             /\ heap' = heap
        ELSE LET h1 == Append(heap, Request("embedding", heap[CallerReq].Model))
                 p == prepareEmbeddingRequest(h1, Len(h1), key)
                 model == p.heap[p.ret].Model
                 sentModel == p.heap[CallerReq].Model
             IN /\ heap' = p.heap
                /\ IF ~ok
                   THEN call' = Call("Responses", <<TransportFailure>>,
                                     <<sentModel>>, <<>>, p.ret, p.resolved, FALSE)
                   ELSE \E response \in UpstreamResponsesResponses(sentModel) :
                          call' = Call("Responses", <<>>, <<sentModel>>,
                                       <<[response EXCEPT !.ExtraFields =
                                            decorateResponseMetadata(
                                               response.ExtraFields,
                                               heap[CallerReq].Model, model)]>>,
                                       p.ret, p.resolved, FALSE)
    /\ UNCHANGED <<key, provider, catalog, streamVars>>

\* ResponsesStream, responses.go lines 47-87: the stream is the handler's
ResponsesStream ==
    /\ Idle
    /\ heap[CallerReq].Kind = "responses"
    /\ \E allowed \in BOOLEAN :
        IF ~allowed
        THEN /\ call' = Call("ResponsesStream", <<OperationNotAllowed>>, <<>>,
                             <<>>, 0, EmptyStr, FALSE)
             /\ heap' = heap
        ELSE LET h1 == Append(heap, Request("embedding", heap[CallerReq].Model))
                 p == prepareEmbeddingRequest(h1, Len(h1), key)
             IN /\ heap' = p.heap
                /\ call' = Call("ResponsesStream", <<>>, <<p.heap[CallerReq].Model>>,
                                <<>>, p.ret, p.resolved, FALSE)
    /\ UNCHANGED <<key, provider, catalog, streamVars>>

\* ------------------------------------------------------------ specifications
Next ==
    \/ ChatCompletion
    \/ ChatCompletionStream
    \/ TextCompletion
    \/ TextCompletionStream
    \/ Embedding
    \/ Responses
    \/ ResponsesStream
    \/ UpSend
    \/ UpSendUnbuffered
    \/ UpClose
    \/ RelayRecv
    \/ RelaySend
    \/ RelayClose
    \/ CallerRecv
    \/ CallerCancel

Spec == Init /\ [][Next]_vars

\* the Go scheduler runs a goroutine that can take a step: weak fairness of
\* the relay goroutine's steps and of a caller that is still reading. The
\* producer eventually closes chatStream. A caller that cancelled
\* (CallerCancel) reads no more.
RelayStep == RelayRecv \/ RelaySend \/ RelayClose

FairSpec ==
    Spec /\ WF_vars(RelayStep) /\ WF_vars(UpClose) /\ WF_vars(CallerRecv)

\* ------------------------------------------- the pure functions, on their own
ResolveModelAlias ==
    /\ call = NoCall
    /\ LET r == resolveModelAlias(key, heap[CallerReq].Model) IN
       call' = Call("resolveModelAlias", <<>>, <<>>, <<>>, 0, r[1], r[2])
    /\ UNCHANGED <<key, provider, catalog, heap, streamVars>>

PrepareChatRequest ==
    /\ call = NoCall
    /\ heap[CallerReq].Kind = "chat"
    /\ LET p == prepareChatRequest(heap, CallerReq, key) IN
       /\ heap' = p.heap
       /\ call' = Call("prepareChatRequest", <<>>, <<>>, <<>>, p.ret, p.resolved, FALSE)
    /\ UNCHANGED <<key, provider, catalog, streamVars>>

PrepareTextRequest ==
    /\ call = NoCall
    /\ heap[CallerReq].Kind = "text"
    /\ LET p == prepareTextRequest(heap, CallerReq, key) IN
       /\ heap' = p.heap
       /\ call' = Call("prepareTextRequest", <<>>, <<>>, <<>>, p.ret, p.resolved, FALSE)
    /\ UNCHANGED <<key, provider, catalog, streamVars>>

PrepareEmbeddingRequest ==
    /\ call = NoCall
    /\ heap[CallerReq].Kind = "embedding"
    /\ LET p == prepareEmbeddingRequest(heap, CallerReq, key) IN
       /\ heap' = p.heap
       /\ call' = Call("prepareEmbeddingRequest", <<>>, <<>>, <<>>, p.ret, p.resolved, FALSE)
    /\ UNCHANGED <<key, provider, catalog, streamVars>>

PureInit == InitWith(Keys, ModelNames, {DefaultProvider})

PureNext ==
    \/ ResolveModelAlias
    \/ PrepareChatRequest
    \/ PrepareTextRequest
    \/ PrepareEmbeddingRequest

PureSpec == PureInit /\ [][PureNext]_vars

\* ------------------------------- the conversions and mappers, on their own
\* the result of applying a function: its name, its argument and its result
Applied(op, in, out) == [op |-> op, in |-> in, out |-> out]

\* every sequence over S of length at most n
SeqsUpTo(S, n) == UNION {[1..k -> S] : k \in 0..n}

MaxChoices == 2

\* chat choices: index, finish reason and log-probabilities each absent and
\* present, with every combination of message content and delta content
ChatChoices ==
    {Choice(meta[1], meta[2], meta[3], message, delta, <<>>) :
        meta \in {<<0, <<>>, <<>>>>, <<1, <<"stop">>, <<"lp">>>>,
                  <<0, <<"stop">>, <<>>>>, <<1, <<>>, <<"lp">>>>},
        message \in {<<>>, <<"">>, <<"Hi there">>},
        delta \in {<<>>, <<"Hi">>}}

ChatResponses ==
    {[ID |-> "chatcmpl-1", Object |-> "chat.completion", Model |-> <<"a">>,
      SystemFingerprint |-> "fp-1", Choices |-> choices, Usage |-> usage,
      ExtraFields |-> ExtraFields(HuggingFace, <<"b">>, EmptyStr,
                                  ChatCompletionRequest, 1)] :
        choices \in SeqsUpTo(ChatChoices, MaxChoices),
        usage \in {<<>>, <<[PromptTokens |-> 3, TotalTokens |-> 5]>>}}

ConvertChatToTextResponse ==
    /\ call = NoCall
    /\ \E chatResp \in ChatResponses :
          call' = Applied("convertChatToTextResponse", chatResp,
                          convertChatToTextResponse(chatResp, <<"b">>, <<"a">>))
    /\ UNCHANGED <<key, provider, catalog, heap, streamVars>>

\* --- embedding usage, part_000 lines 131-187
MaxTextLen == 8

MaxTexts == 2

\* len(text): the number of bytes of a Go string ("é" takes two bytes in
\* UTF-8, the other characters of the model one)
RECURSIVE ByteLen(_)
ByteLen(text) ==
    IF text = <<>> THEN 0
    ELSE (IF text[1] = "é" THEN 2 ELSE 1) + ByteLen(Tail(text))

\* *request.Input.Text
SingleTexts == SeqsUpTo({"a", " "}, MaxTextLen)

\* the elements of request.Input.Texts: a character repeated
ListTexts == {[i \in 1..n |-> c] : n \in 0..MaxTextLen, c \in {"a", "é"}}

\* request.Input: nil (<<>>) or an EmbeddingInput whose Text and Texts are
\* each nil (<<>>) or set
EmbeddingInputs ==
    {<<>>}
    \cup {<<[Text |-> <<t>>, Texts |-> <<>>]>> : t \in SingleTexts}
    \cup {<<[Text |-> <<>>, Texts |-> ts]>> :
             ts \in {<<>>} \cup {<<l>> : l \in SeqsUpTo(ListTexts, MaxTexts)}}

\* the loop of estimateTokens, lines 178-180
RECURSIVE SumOfQuarters(_)
SumOfQuarters(texts) ==
    IF texts = <<>> THEN 0
    ELSE (ByteLen(texts[1]) \div 4) + SumOfQuarters(Tail(texts))

estimateTokens_NoFloor(input) ==
    IF input = <<>> THEN 0
    ELSE IF input[1].Text # <<>> THEN ByteLen(input[1].Text[1]) \div 4
    ELSE IF input[1].Texts # <<>> THEN SumOfQuarters(input[1].Texts[1])
    ELSE 0

estimateTokens(input) ==
    IF input = <<>> THEN 0
    ELSE LET count ==
               IF input[1].Text # <<>> THEN ByteLen(input[1].Text[1]) \div 4
               ELSE IF input[1].Texts # <<>>
                    THEN SumOfQuarters(input[1].Texts[1])
                    ELSE 0
         IN IF count = 0 THEN 1 ELSE count

\* *huggingFaceEmbeddingResponse: nil (<<>>) or an array of vectors
HFEmbeddingResponses == {<<>>, <<<<>>>>, <<<<"v0", "v1">>>>}

convertFromHuggingFaceEmbeddingResponse(hfResponse, input) ==
    IF hfResponse = <<>> \/ Len(hfResponse[1]) = 0
    THEN [Object |-> "list", Data |-> <<>>, Usage |-> <<>>]
    ELSE [Object |-> "list",
          Data |-> [i \in 1..Len(hfResponse[1]) |->
                      [Object |-> "embedding", Index |-> i - 1,
                       Embedding |-> hfResponse[1][i]]],
          Usage |-> <<[PromptTokens |-> estimateTokens(input),
                       TotalTokens |-> estimateTokens(input)]>>]

ConvertFromHuggingFaceEmbeddingResponse ==
    /\ call = NoCall
    /\ \E hfResponse \in HFEmbeddingResponses, input \in EmbeddingInputs :
          call' = Applied("convertFromHuggingFaceEmbeddingResponse",
                          [hfResponse |-> hfResponse, Input |-> input],
                          convertFromHuggingFaceEmbeddingResponse(hfResponse, input))
    /\ UNCHANGED <<key, provider, catalog, heap, streamVars>>

\* --- capability derivation, text.go lines 224-262
MaxTags == 2

\* A pipeline tag or free-form tag as the hub sends it: a word, possibly
\* written with upper-case letters, possibly surrounded by white space.
Label(word, upper, padded) == [word |-> word, upper |-> upper, padded |-> padded]

\* a string literal of the source
Lit(word) == Label(word, FALSE, FALSE)

ToLower(label) == [label EXCEPT !.upper = FALSE]

\* strings.TrimSpace on a label
TrimLabel(label) == [label EXCEPT !.padded = FALSE]

Words ==
    {"text-generation", "text2text-generation", "summarization",
     "conversational", "chat-completion", "text-embedding",
     "sentence-similarity", "feature-extraction", "embeddings", "robotics"}

PipelineTags ==
    {Lit("")}
    \cup {Lit(w) : w \in Words}
    \cup {Label(w, u, p) : w \in {"text-generation", "embeddings"},
                           u \in BOOLEAN, p \in BOOLEAN}

Tags ==
    {Lit(w) : w \in Words}
    \cup {Label("text-generation", TRUE, FALSE),
          Label("feature-extraction", FALSE, TRUE)}

\* the string values of the request types, in the order slices.Sort gives
MethodOrder ==
    <<ChatCompletionRequest, EmbeddingRequest, ResponsesRequest,
      TextCompletionRequest>>

ChatMethods == {ChatCompletionRequest, TextCompletionRequest, ResponsesRequest}

\* the methods one tag of the loop adds, lines 244-251
TagMethods(tag) ==
    IF ToLower(tag) \in {Lit("text-embedding"), Lit("sentence-similarity"),
                         Lit("feature-extraction"), Lit("embeddings")}
    THEN {EmbeddingRequest}
    ELSE IF ToLower(tag) \in {Lit("text-generation"), Lit("summarization"),
                              Lit("conversational"), Lit("chat-completion")}
    THEN ChatMethods
    ELSE {}

\* the methods the pipeline tag adds, lines 229-242
PipelineMethods(pipeline) ==
    LET normalized == TrimLabel(ToLower(pipeline)) IN
    IF normalized \in {Lit("text-generation"), Lit("text2text-generation"),
                       Lit("summarization"), Lit("conversational"),
                       Lit("chat-completion")}
    THEN ChatMethods
    ELSE IF normalized \in {Lit("text-embedding"), Lit("sentence-similarity"),
                            Lit("feature-extraction"), Lit("embeddings")}
    THEN {EmbeddingRequest}
    ELSE {}

\* deriveSupportedMethods: nil (<<>>) or the sorted method names
deriveSupportedMethods(pipeline, tags) ==
    LET methodsSet == PipelineMethods(pipeline)
                      \cup UNION {TagMethods(tags[i]) : i \in 1..Len(tags)}
    IN SelectSeq(MethodOrder, LAMBDA m : m \in methodsSet)

DeriveSupportedMethods ==
    /\ call = NoCall
    /\ \E pipeline \in PipelineTags, tags \in SeqsUpTo(Tags, MaxTags) :
          call' = Applied("deriveSupportedMethods",
                          [pipeline |-> pipeline, tags |-> tags],
                          deriveSupportedMethods(pipeline, tags))
    /\ UNCHANGED <<key, provider, catalog, heap, streamVars>>

\* --- hub rows to catalog entries, text.go lines 163-222
MaxEntries == 3

modelHubBaseURL == "https://huggingface.co"

\* huggingFaceModelCardData
CardData(name, short, description, summary) ==
    [ModelName |-> name, ShortDescription |-> short,
     Description |-> description, Summary |-> summary]

\* huggingFaceModelHubEntry; ModelID is a tuple of characters
HubEntry(modelID, author, pipeline, tags, gated, card) ==
    [ModelID |-> modelID, Author |-> author, PipelineTag |-> pipeline,
     Tags |-> tags, Gated |-> gated, CardData |-> card]

ModelIDs == {<<>>, <<"a">>, <<"b">>, <<"a", "b">>, <<"B">>}

\* rows as toHubEntry builds them (empty card data), with a pipeline tag
\* that gives capabilities, one that gives none, and capabilities from tags
PlainEntries ==
    {HubEntry(id, "org", Lit("text-generation"), <<>>, FALSE,
              CardData("", "", "", "")) : id \in ModelIDs}
    \cup {HubEntry(id, "org", Lit("robotics"), <<>>, FALSE,
                   CardData("", "", "", "")) : id \in {<<>>, <<"b">>}}
    \cup {HubEntry(id, "", Lit(""), <<Lit("feature-extraction")>>, FALSE,
                   CardData("", "", "", "")) : id \in {<<"a">>, <<"B">>}}

\* rows with card data
CardEntries ==
    {HubEntry(<<"a">>, "org", Lit("text-generation"), <<>>, TRUE, card) :
        card \in {CardData("Name", "short", "", "summary"),
                  CardData("", "", "", "summary")}}

HubEntries == PlainEntries \cup CardEntries

\* the characters of the provider keys and model ids, in byte order
ByteOrder ==
    <<"-", "/", "B", "a", "b", "c", "e", "f", "g", "h", "i", "m", "n", "u", "y">>

ByteRank(c) == CHOOSE i \in 1..Len(ByteOrder) : ByteOrder[i] = c

\* string(provider) as a tuple of characters
ProviderChars(name) ==
    CASE name = "huggingface" ->
           <<"h", "u", "g", "g", "i", "n", "g", "f", "a", "c", "e">>
      [] name = "my-hf" -> <<"m", "y", "-", "h", "f">>

\* strings.Compare: -1, 0 or 1 by the first byte that differs
RECURSIVE Compare(_, _)
Compare(a, b) ==
    IF a = <<>> /\ b = <<>> THEN 0
    ELSE IF a = <<>> THEN -1
    ELSE IF b = <<>> THEN 1
    ELSE IF ByteRank(a[1]) < ByteRank(b[1]) THEN -1
    ELSE IF ByteRank(a[1]) > ByteRank(b[1]) THEN 1
    ELSE Compare(Tail(a), Tail(b))

Keeps_AnyModelID(entry) ==
    Len(deriveSupportedMethods(entry.PipelineTag, entry.Tags)) # 0

\* the two `continue` tests of the loop, lines 166-173
Keeps(entry) ==
    /\ entry.ModelID # <<>>
    /\ Len(deriveSupportedMethods(entry.PipelineTag, entry.Tags)) # 0

\* the schemas.Model built from a row that is kept, lines 175-211
HubModel(entry, providerKey) ==
    LET description ==
          IF entry.CardData.Description # "" THEN entry.CardData.Description
          ELSE IF entry.CardData.ShortDescription # ""
               THEN entry.CardData.ShortDescription
               ELSE entry.CardData.Summary
        name == IF entry.CardData.ModelName # ""
                THEN <<entry.CardData.ModelName>> ELSE entry.ModelID
    IN [ID |-> ProviderChars(providerKey) \o <<"/">> \o entry.ModelID,
        CanonicalSlug |-> <<modelHubBaseURL, "/">> \o entry.ModelID,
        Name |-> name,
        Deployment |-> entry.ModelID,
        SupportedMethods |->
            deriveSupportedMethods(entry.PipelineTag, entry.Tags),
        HuggingFaceID |-> entry.ModelID,
        OwnedBy |-> IF entry.Author # "" THEN <<entry.Author>> ELSE <<>>,
        Description |-> IF description # "" THEN <<description>> ELSE <<>>,
        Architecture |-> IF entry.PipelineTag # Lit("")
                         THEN <<[Modality |-> entry.PipelineTag]>> ELSE <<>>]

\* the models appended by the loop, in the order of the rows
RECURSIVE AppendedModels(_, _)
AppendedModels(entries, providerKey) ==
    IF entries = <<>> THEN <<>>
    ELSE (IF Keeps(entries[1])
          THEN <<HubModel(entries[1], providerKey)>> ELSE <<>>)
         \o AppendedModels(Tail(entries), providerKey)

InOrder_Descending(a, b) == Compare(b.ID, a.ID) <= 0

\* the comparator of the sort, lines 217-219: a may stand before b
InOrder(a, b) == Compare(a.ID, b.ID) <= 0

\* slices.SortFunc is not a stable sort: the result is some arrangement of
\* the models that is in order under the comparator
SortFunc(models) ==
    LET n == Len(models)
        perms == {f \in [1..n -> 1..n] : \A i, j \in 1..n : i # j => f[i] # f[j]}
    IN {[i \in 1..n |-> models[f[i]]] : f \in
          {g \in perms : \A i \in 1..n : i < n =>
                            InOrder(models[g[i]], models[g[i + 1]])}}

\* convertHubEntriesToModels: the results the sort can give
convertHubEntriesToModels(entries, providerKey) ==
    SortFunc(AppendedModels(entries, providerKey))

ConvertHubEntriesToModels ==
    /\ call = NoCall
    /\ \E entries \in SeqsUpTo(HubEntries, MaxEntries) :
         \E models \in convertHubEntriesToModels(entries, GetProviderKey(provider)) :
          call' = Applied("convertHubEntriesToModels", entries, models)
    /\ UNCHANGED <<key, provider, catalog, heap, streamVars>>

\* --- the rows of the list endpoint, models.go lines 23-42
\* apiModelEntry.Gated is an interface{}: the JSON value decoded into it is
\* absent or null (nil), a boolean, a string or a number
RawGated ==
    {[type |-> "nil", value |-> "nil"]}
    \cup {[type |-> "bool", value |-> b] : b \in BOOLEAN}
    \cup {[type |-> "string", value |-> v] :
             v \in {"", "false", "False", "true", "manual", "auto"}}
    \cup {[type |-> "float64", value |-> n] : n \in {0, 1}}

\* apiModelEntry
ApiModelEntries ==
    {[ModelID |-> id, Author |-> author, PipelineTag |-> pipeline,
      Tags |-> tags, Gated |-> gated] :
        id \in ModelIDs, author \in {"", "org"},
        pipeline \in {Lit("text-generation"), Lit("robotics")},
        tags \in {<<>>, <<Lit("feature-extraction")>>},
        gated \in RawGated}

toHubEntry_AnyNonEmptyString(a) ==
    HubEntry(a.ModelID, a.Author, a.PipelineTag, a.Tags,
             CASE a.Gated.type = "bool" -> a.Gated.value
               [] a.Gated.type = "string" -> a.Gated.value # ""
               [] OTHER -> FALSE,
             CardData("", "", "", ""))

\* toHubEntry: the type switch on Gated, and the fields copied
toHubEntry(a) ==
    LET gated ==
          CASE a.Gated.type = "bool" -> a.Gated.value
            [] a.Gated.type = "string" ->
                 a.Gated.value # "" /\ a.Gated.value # "false"
            [] OTHER -> FALSE
    IN HubEntry(a.ModelID, a.Author, a.PipelineTag, a.Tags, gated,
                CardData("", "", "", ""))

ToHubEntry ==
    /\ call = NoCall
    /\ \E a \in ApiModelEntries :
          call' = Applied("toHubEntry", a, toHubEntry(a))
    /\ UNCHANGED <<key, provider, catalog, heap, streamVars>>

\* --- the catalog URL, models.go lines 141-183
defaultModelFetchLimit == 200

maxModelFetchLimit == 1000

Digits == <<"0", "1", "2", "3", "4", "5", "6", "7", "8", "9">>

\* strconv.Itoa: the decimal digits of n, as a tuple of characters
RECURSIVE Itoa(_)
Itoa(n) ==
    IF n < 0 THEN <<"-">> \o Itoa(0 - n)
    ELSE IF n < 10 THEN <<Digits[n + 1]>>
    ELSE Itoa(n \div 10) \o <<Digits[(n % 10) + 1]>>

\* request.PageSize
PageSizes == {-1, 0, 1, 10, 200, 999, 1000, 1001, 5000}

\* request.PageToken
PageTokens == {<<>>, <<" ">>, <<"c">>, <<" ", "c">>}

\* a value of request.ExtraParams (map[string]interface{}); a float64 is
\* its whole part and its fraction in tenths
ExtraValues ==
    {[type |-> "string", value |-> ""],
     [type |-> "string", value |-> "downloads"],
     [type |-> "int", value |-> 5000],
     [type |-> "float64", value |-> <<2, 5>>],
     [type |-> "bool", value |-> TRUE]}

ExtraKeys == {"limit", "sort", "search"}

\* request.ExtraParams: a map from some of the keys to values
ExtraParamsMaps ==
    UNION {[keys -> ExtraValues] : keys \in SUBSET ExtraKeys}

ListModelsRequests ==
    [PageSize : PageSizes, PageToken : PageTokens, ExtraParams : ExtraParamsMaps]

\* the string an extra parameter is rendered to, lines 165-178
RenderExtra(typed) ==
    CASE typed.type = "string" -> <<typed.value>>
      [] typed.type = "int" -> Itoa(typed.value)
      [] typed.type = "float64" -> Itoa(typed.value[1])
      [] typed.type = "bool" -> IF typed.value THEN <<"true">> ELSE <<"false">>

\* url.Values.Set
Set(values, k, v) ==
    [x \in DOMAIN values \cup {k} |-> IF x = k THEN v ELSE values[x]]

\* the parameters set before the extra parameters, lines 142-161
FixedValues(request) ==
    LET limit0 == IF request.PageSize <= 0 THEN defaultModelFetchLimit
                  ELSE request.PageSize
        limit == IF limit0 > maxModelFetchLimit THEN maxModelFetchLimit
                 ELSE limit0
        v1 == Set(Set(<<>>, "inference_provider", <<"hf-inference">>),
                  "limit", Itoa(limit))
        v2 == IF TrimSpace(request.PageToken) # <<>>
              THEN Set(v1, "cursor", TrimSpace(request.PageToken)) ELSE v1
    IN Set(Set(Set(v2, "full", <<"1">>), "sort", <<"likes">>),
           "direction", <<"-", "1">>)

\* buildModelHubURL: the extra parameters are Set after the fixed ones; an
\* empty string value is skipped
buildModelHubURL(request) ==
    LET fixed == FixedValues(request)
        extras == {k \in DOMAIN request.ExtraParams :
                     request.ExtraParams[k] # [type |-> "string", value |-> ""]}
    IN [base |-> modelHubBaseURL, path |-> "/api/models",
        query |-> [x \in DOMAIN fixed \cup extras |->
                     IF x \in extras THEN RenderExtra(request.ExtraParams[x])
                     ELSE fixed[x]]]

BuildModelHubURL ==
    /\ call = NoCall
    /\ \E request \in ListModelsRequests :
          call' = Applied("buildModelHubURL", request, buildModelHubURL(request))
    /\ UNCHANGED <<key, provider, catalog, heap, streamVars>>

\* --- error mapping, models.go lines 185-210 and part_000 lines 190-213
\* huggingFaceErrorResponse
ErrorResponse(error, message) == [Error |-> error, Message |-> message]

\* a non-200 response: its status, its raw body, and what decoding the body
\* as a huggingFaceErrorResponse gives (<<>> when the body does not decode)
UpstreamErrors ==
    {[StatusCode |-> status, Body |-> "raw body", Decoded |-> decoded] :
        status \in {400, 503},
        decoded \in {<<>>}
           \cup {<<ErrorResponse(error, message)>> :
                    error \in {<<>>, <<"E">>, <<" ">>},
                    message \in {<<>>, <<"M">>, <<" ">>, <<" ", "M">>}}}

\* the struct after Unmarshal: the zero value when decoding failed
Unmarshal(resp) ==
    IF resp.Decoded = <<>> THEN ErrorResponse(<<>>, <<>>) ELSE resp.Decoded[1]

\* schemas.BifrostError; a field of ExtraFields that is not set is empty
BifrostError(status, message, providerKey, model, requestType) ==
    [IsBifrostError |-> FALSE, StatusCode |-> status,
     Error |-> [Message |-> message],
     ExtraFields |-> [Provider |-> providerKey, ModelRequested |-> model,
                      RequestType |-> requestType]]

\* handleModelHubError
handleModelHubError(p, resp) ==
    LET apiError == Unmarshal(resp)
        m1 == TrimSpace(apiError.Message)
        m2 == IF m1 = <<>> THEN TrimSpace(apiError.Error) ELSE m1
        message == IF m2 = <<>>
                   THEN <<"unexpected Hugging Face response: ", resp.Body>>
                   ELSE m2
    IN BifrostError(resp.StatusCode, message, GetProviderKey(p), EmptyStr,
                    ListModelsRequest)

\* providerUtils.HandleProviderAPIError: the canonical error of a non-200
\* response, its message embedding the raw body, no metadata attached
HandleProviderAPIError(resp) ==
    BifrostError(resp.StatusCode, <<"provider API error: ", resp.Body>>,
                 "", EmptyStr, "")

\* parseHuggingFaceEmbeddingError
parseHuggingFaceEmbeddingError(resp, model) ==
    LET errorResp == Unmarshal(resp)
        bifrostErr == HandleProviderAPIError(resp)
        message == IF errorResp.Error = <<>> THEN errorResp.Message
                   ELSE errorResp.Error
        enhanced == IF errorResp.Error # <<>> \/ errorResp.Message # <<>>
                    THEN message ELSE bifrostErr.Error.Message
    IN BifrostError(bifrostErr.StatusCode, enhanced, HuggingFace, model,
                    EmbeddingRequest)

HandleModelHubError ==
    /\ call = NoCall
    /\ \E resp \in UpstreamErrors :
          call' = Applied("handleModelHubError", [resp |-> resp, model |-> EmptyStr],
                          handleModelHubError(provider, resp))
    /\ UNCHANGED <<key, provider, catalog, heap, streamVars>>

ParseHuggingFaceEmbeddingError ==
    /\ call = NoCall
    /\ \E resp \in UpstreamErrors :
          call' = Applied("parseHuggingFaceEmbeddingError",
                          [resp |-> resp, model |-> heap[CallerReq].Model],
                          parseHuggingFaceEmbeddingError(resp, heap[CallerReq].Model))
    /\ UNCHANGED <<key, provider, catalog, heap, streamVars>>

\* --- ListModels, models.go lines 45-132
MaxKeys == 2

\* schemas.Key.Value of the credentials handed to ListModels
KeyLists == SeqsUpTo({[Value |-> ""], [Value |-> "k1"]}, MaxKeys)

\* the request handed to ListModels: nil (<<>>) or a request
CatalogRequests ==
    {<<>>}
    \cup {<<[Provider |-> p, PageSize |-> size, PageToken |-> <<>>,
             ExtraParams |-> <<>>]>> : p \in {"", HuggingFace}, size \in {0, 1}}

RowX == [ModelID |-> <<"a">>, Author |-> "org",
         PipelineTag |-> Lit("text-generation"), Tags |-> <<>>,
         Gated |-> [type |-> "bool", value |-> FALSE]]

RowY == [ModelID |-> <<"b">>, Author |-> "", PipelineTag |-> Lit(""),
         Tags |-> <<Lit("feature-extraction")>>,
         Gated |-> [type |-> "string", value |-> "manual"]]

RowZ == [ModelID |-> <<"a", "b">>, Author |-> "org",
         PipelineTag |-> Lit("summarization"), Tags |-> <<>>,
         Gated |-> [type |-> "nil", value |-> "nil"]]

\* a row with the model id of RowX and other contents
RowX2 == [RowX EXCEPT !.PipelineTag = Lit("feature-extraction")]

RowR == [ModelID |-> <<"B">>, Author |-> "org",
         PipelineTag |-> Lit("robotics"), Tags |-> <<>>,
         Gated |-> [type |-> "bool", value |-> TRUE]]

\* what the hub does with one query: the transport fails, the hub answers
\* with a non-200 status, with a body that does not decode, or with rows
\* and possibly an X-Next-Page header
HubAnswer(kind, resp, rows, cursor) ==
    [kind |-> kind, resp |-> resp, rows |-> rows, cursor |-> cursor]

HubAnswers ==
    {HubAnswer("failed", <<>>, <<>>, ""),
     HubAnswer("status", <<[StatusCode |-> 503, Body |-> "raw body",
                            Decoded |-> <<ErrorResponse(<<>>, <<"M">>)>>]>>,
               <<>>, ""),
     HubAnswer("garbled", <<>>, <<>>, ""),
     HubAnswer("ok", <<>>, <<>>, ""),
     HubAnswer("ok", <<>>, <<RowY, RowX>>, ""),
     HubAnswer("ok", <<>>, <<RowX2, RowR, RowZ>>, "next")}

\* the result of listModelsByKey: the request it sent, and the response or
\* the error it returned
KeyResult(url, authorization, resp, err) ==
    [url |-> url, authorization |-> authorization, resp |-> resp, err |-> err]

ResponseUnmarshalFailure == "failed to unmarshal response from provider API"

\* the status test inverted: a 200 answer is handed to handleModelHubError
listModelsByKey_StatusInverted(p, k, request, answer) ==
    LET url == buildModelHubURL(request)
        authorization == IF k.Value # "" THEN <<"Bearer ", k.Value>> ELSE <<>>
    IN CASE answer.kind = "failed" ->
              {KeyResult(url, authorization, <<>>,
                  <<BifrostError(0, <<TransportFailure>>, "", EmptyStr, "")>>)}
         [] answer.kind = "ok" ->
              {KeyResult(url, authorization, <<>>,
                  <<handleModelHubError(p, [StatusCode |-> 200,
                                            Body |-> "raw body",
                                            Decoded |-> <<>>])>>)}
         [] OTHER ->
              {KeyResult(url, authorization, <<>>,
                  <<BifrostError(0, <<ResponseUnmarshalFailure>>,
                                 GetProviderKey(p), EmptyStr, "")>>)}

\* listModelsByKey: the results it can return for an answer of the hub
listModelsByKey(p, k, request, answer) ==
    LET url == buildModelHubURL(request)
        authorization == IF k.Value # "" THEN <<"Bearer ", k.Value>> ELSE <<>>
        hubResponse == [i \in 1..Len(answer.rows) |-> toHubEntry(answer.rows[i])]
    IN CASE answer.kind = "failed" ->
              {KeyResult(url, authorization, <<>>,
                  <<BifrostError(0, <<TransportFailure>>, "", EmptyStr, "")>>)}
         [] answer.kind = "status" ->
              {KeyResult(url, authorization, <<>>,
                  <<handleModelHubError(p, answer.resp[1])>>)}
         [] answer.kind = "garbled" ->
              {KeyResult(url, authorization, <<>>,
                  <<BifrostError(0, <<ResponseUnmarshalFailure>>,
                                 GetProviderKey(p), EmptyStr, "")>>)}
         [] answer.kind = "ok" ->
              {KeyResult(url, authorization,
                  <<[Data |-> models,
                     ExtraFields |-> ExtraFields(GetProviderKey(p), EmptyStr,
                                        EmptyStr, ListModelsRequest, 1),
                     NextPageToken |-> answer.cursor]>>,
                  <<>>) :
                 models \in convertHubEntriesToModels(hubResponse, GetProviderKey(p))}

\* a finished query: the index of its key (0 for the anonymous key of a
\* call without keys), the hub's answer and what listModelsByKey returned
Query(index, answer, result) ==
    [index |-> index, answer |-> answer, result |-> result]

\* the models of the successful results, in the order the queries finished
RECURSIVE SuccessfulModels(_)
SuccessfulModels(queries) ==
    IF queries = <<>> THEN <<>>
    ELSE (IF queries[1].result.err = <<>>
          THEN queries[1].result.resp[1].Data ELSE <<>>)
         \o SuccessfulModels(Tail(queries))

\* union by id: the first model of each id is kept
RECURSIVE FirstOfEachID(_, _)
FirstOfEachID(models, seen) ==
    IF models = <<>> THEN <<>>
    ELSE IF models[1].ID \in seen THEN FirstOfEachID(Tail(models), seen)
    ELSE <<models[1]>> \o FirstOfEachID(Tail(models), seen \cup {models[1].ID})

\* the aggregation of the fan-out: union by id, sorted ascending by id
AggregateListModelsResponses(queries) ==
    SortFunc(FirstOfEachID(SuccessfulModels(queries), {}))

\* BifrostListModelsResponse.ApplyPagination for the first page: all the
\* models when no page size is given or they fit the page, else the first
\* pageSize models
ApplyPagination(models, pageSize) ==
    IF pageSize <= 0 \/ Len(models) <= pageSize THEN models
    ELSE SubSeq(models, 1, pageSize)

\* ListModels up to the fan-out; a call without keys makes its one query
\* with the empty key and returns
ListModels ==
    /\ call = NoCall
    /\ catalog.phase = "none"
    /\ \E allowed \in BOOLEAN, keys \in KeyLists, reqIn \in CatalogRequests :
        IF ~allowed
        THEN catalog' = Catalog("done", keys, CallerRequest(reqIn, reqIn), reqIn, {}, <<>>, <<>>, <<>>,
                                <<BifrostError(0, <<OperationNotAllowed>>,
                                               "", EmptyStr, "")>>)
        ELSE LET request ==
                   [(IF reqIn = <<>>
                     THEN [Provider |-> "", PageSize |-> 0, PageToken |-> <<>>,
                           ExtraParams |-> <<>>]
                     ELSE reqIn[1]) EXCEPT !.Provider = GetProviderKey(provider)]
                 \* line 53 writes through the pointer the caller passed
                 caller == CallerRequest(reqIn, IF reqIn = <<>> THEN <<>>
                                                ELSE <<request>>)
             IN IF Len(keys) = 0
                THEN \E answer \in HubAnswers :
                     \E result \in listModelsByKey(provider, [Value |-> ""],
                                                    request, answer) :
                       catalog' =
                         IF result.err # <<>>
                         THEN Catalog("done", keys, caller, <<request>>, {},
                                      <<Query(0, answer, result)>>, <<>>, <<>>,
                                      result.err)
                         ELSE Catalog("done", keys, caller, <<request>>, {},
                                      <<Query(0, answer, result)>>,
                                      result.resp[1].Data,
                                      <<[result.resp[1] EXCEPT !.Data =
                                           ApplyPagination(@, request.PageSize)]>>,
                                      <<>>)
                ELSE catalog' = Catalog("fanout", keys, caller, <<request>>,
                                        1..Len(keys), <<>>, <<>>, <<>>, <<>>)
    /\ UNCHANGED <<key, provider, call, heap, streamVars>>

\* one goroutine of the fan-out: the wrapper of line 64 calls
\* listModelsByKey with its key and the shared request
QueryKey ==
    /\ catalog.phase = "fanout"
    /\ \E i \in catalog.pending, answer \in HubAnswers :
       \E result \in listModelsByKey(provider, catalog.keys[i],
                                      catalog.request[1], answer) :
         catalog' = [catalog EXCEPT !.pending = @ \ {i},
                                    !.queries = Append(@, Query(i, answer, result))]
    /\ UNCHANGED <<key, provider, call, heap, streamVars>>

\* providerUtils.HandleMultipleListModelsRequests once every query has
\* finished: an error when all failed, else the aggregated first page
HandleMultipleListModelsRequests ==
    /\ catalog.phase = "fanout"
    /\ catalog.pending = {}
    /\ IF \A i \in 1..Len(catalog.queries) : catalog.queries[i].result.err # <<>>
       THEN \E i \in 1..Len(catalog.queries) :
              catalog' = [catalog EXCEPT !.phase = "done",
                                         !.err = catalog.queries[i].result.err]
       ELSE \E merged \in AggregateListModelsResponses(catalog.queries) :
              catalog' =
                [catalog EXCEPT
                   !.phase = "done",
                   !.merged = merged,
                   !.response =
                      <<[Data |-> ApplyPagination(merged,
                                     catalog.request[1].PageSize),
                         ExtraFields |-> ExtraFields(GetProviderKey(provider),
                                            EmptyStr, EmptyStr,
                                            ListModelsRequest, 1),
                         NextPageToken |-> ""]>>]
    /\ UNCHANGED <<key, provider, call, heap, streamVars>>

\* --- decorateResponseMetadata on its own, huggingface.go 124-136
\* the model names handed to decorateResponseMetadata and found in a record
MetadataModels == {EmptyStr, <<"a">>, <<"b">>}

\* the *BifrostResponseExtraFields argument: nil (<<>>) or a record
ExtraRecords ==
    {<<>>} \cup
    {<<ExtraFields(p, requested, deployment, requestType, latency)>> :
        p \in {HuggingFace}, requested \in MetadataModels,
        deployment \in MetadataModels,
        requestType \in {ChatCompletionRequest, EmbeddingRequest},
        latency \in {0, 1}}

\* the record after one call; a nil record is left alone (lines 125-127)
Decorate(extra, requestedModel, resolved) ==
    IF extra = <<>>
    THEN <<>>
    ELSE <<decorateResponseMetadata(extra[1], requestedModel, resolved)>>

DecorateResponseMetadata ==
    /\ call = NoCall
    /\ \E extra \in ExtraRecords, requestedModel \in MetadataModels,
          resolved \in MetadataModels :
          LET once == Decorate(extra, requestedModel, resolved)
          IN call' = Applied("decorateResponseMetadata",
                             [extra |-> extra, requestedModel |-> requestedModel,
                              resolvedModel |-> resolved],
                             [once |-> once,
                              twice |-> Decorate(once, requestedModel, resolved)])
    /\ UNCHANGED <<key, provider, catalog, heap, streamVars>>

\* --- the wire embedding request, part_000 lines 108-128
\* request.Input as the conversion reads it: nil, a single string, a list
\* (possibly empty), or neither
WireInputs ==
    {<<>>, <<[Text |-> <<>>, Texts |-> <<>>]>>}
    \cup {<<[Text |-> <<t>>, Texts |-> <<>>]>> : t \in {"", "a"}}
    \cup {<<[Text |-> <<>>, Texts |-> <<l>>]>> : l \in {<<>>, <<"a">>, <<"a", "b">>}}

\* request.Params: nil (<<>>) or the optional parameters of the canonical
\* request, each nil (<<>>) or set
EmbeddingParams ==
    {<<>>} \cup
    {<<[Normalize |-> n, PromptName |-> pn, Truncate |-> t]>> :
        n \in {<<>>, <<TRUE>>, <<FALSE>>}, pn \in {<<>>, <<"query">>},
        t \in {<<>>, <<TRUE>>}}

\* huggingFaceEmbeddingRequest, text.go lines 149-156; Inputs is the
\* interface value: nil, a string or a list
huggingFaceEmbeddingRequest(inputs, normalize, promptName, truncate, direction) ==
    [Inputs |-> inputs, Normalize |-> normalize, PromptName |-> promptName,
     Truncate |-> truncate, TruncDirection |-> direction]

\* lines 109-128: the input is copied; the block for request.Params is empty
convertToHuggingFaceEmbeddingRequest(input, params) ==
    LET inputs == IF input = <<>> THEN <<>>
                  ELSE IF input[1].Text # <<>>
                       THEN <<[kind |-> "string", value |-> input[1].Text[1]]>>
                  ELSE IF input[1].Texts # <<>>
                       THEN <<[kind |-> "list", value |-> input[1].Texts[1]]>>
                  ELSE <<>>
    IN huggingFaceEmbeddingRequest(inputs, <<>>, <<>>, <<>>, <<>>)

ConvertToHuggingFaceEmbeddingRequest ==
    /\ call = NoCall
    /\ \E input \in WireInputs, params \in EmbeddingParams :
          call' = Applied("convertToHuggingFaceEmbeddingRequest",
                          [Input |-> input, Params |-> params],
                          convertToHuggingFaceEmbeddingRequest(input, params))
    /\ UNCHANGED <<key, provider, catalog, heap, streamVars>>

\* --- the operations the provider does not support, huggingface.go 265-283
UnsupportedOperation == "unsupported operation"

\* providerUtils.NewUnsupportedOperationError: the canonical error of an
\* operation the backend never implements, tagged with the request kind
NewUnsupportedOperationError(requestType, providerKey) ==
    BifrostError(0, <<UnsupportedOperation>>, providerKey, EmptyStr, requestType)

\* the requests handed to the four handlers: nil (<<>>) or a request
UnsupportedRequests == {<<>>, <<"input">>}

UnsupportedResult_Sends(requestType, p) ==
    [result |-> <<>>, transport |-> <<"request">>,
     err |-> <<NewUnsupportedOperationError(requestType, GetProviderKey(p))>>]

\* what each of the four handlers returns: a nil result and the error; no
\* request is built or sent (transport is <<>>)
UnsupportedResult(requestType, p) ==
    [result |-> <<>>, transport |-> <<>>,
     err |-> <<NewUnsupportedOperationError(requestType, GetProviderKey(p))>>]

Speech ==
    /\ call = NoCall
    /\ \E request \in UnsupportedRequests :
          call' = Applied("Speech", request,
                          UnsupportedResult(SpeechRequest, provider))
    /\ UNCHANGED <<key, provider, catalog, heap, streamVars>>

SpeechStream ==
    /\ call = NoCall
    /\ \E request \in UnsupportedRequests :
          call' = Applied("SpeechStream", request,
                          UnsupportedResult(SpeechStreamRequest, provider))
    /\ UNCHANGED <<key, provider, catalog, heap, streamVars>>

Transcription ==
    /\ call = NoCall
    /\ \E request \in UnsupportedRequests :
          call' = Applied("Transcription", request,
                          UnsupportedResult(TranscriptionRequest, provider))
    /\ UNCHANGED <<key, provider, catalog, heap, streamVars>>

TranscriptionStream ==
    /\ call = NoCall
    /\ \E request \in UnsupportedRequests :
          call' = Applied("TranscriptionStream", request,
                          UnsupportedResult(TranscriptionStreamRequest, provider))
    /\ UNCHANGED <<key, provider, catalog, heap, streamVars>>

FuncInit ==
    /\ InitWith({[HuggingFaceKeyConfig |-> <<>>]}, {<<"a">>}, Providers)
    /\ heap[CallerReq].Kind = "embedding"

FuncNext ==
    \/ ConvertChatToTextResponse
    \/ ConvertFromHuggingFaceEmbeddingResponse
    \/ DeriveSupportedMethods
    \/ ConvertHubEntriesToModels
    \/ ToHubEntry
    \/ BuildModelHubURL
    \/ HandleModelHubError
    \/ ParseHuggingFaceEmbeddingError
    \/ Speech
    \/ SpeechStream
    \/ Transcription
    \/ TranscriptionStream
    \/ DecorateResponseMetadata
    \/ ConvertToHuggingFaceEmbeddingRequest

FuncSpec == FuncInit /\ [][FuncNext]_vars

CatalogNext ==
    \/ ListModels
    \/ QueryKey
    \/ HandleMultipleListModelsRequests

CatalogSpec == FuncInit /\ [][CatalogNext]_vars

\* ------------------------------------------------------------------ claims
\* every element written to textStream so far, in order
Written == received \o textStream

\* the relay has finished and the caller has drained the output
StreamOver == pc = "done" /\ textStream = <<>>

\* out is what the relay makes of the upstream element in: the same pointer
\* (nil for nil)
DerivedFrom(out, in) ==
    \/ in = <<>> /\ out = <<>>
    \/ in # <<>> /\ out # <<>> /\ out[1].ptr = in[1].ptr

\* C1: once the upstream sequence m1..mn is closed and relayed, the caller
\* has received exactly n elements and the i-th is derived from the i-th
\* upstream element (nothing dropped, duplicated, coalesced or reordered).
C1_SequencePreserved ==
    StreamOver =>
        /\ Len(received) = Len(sent)
        /\ \A i \in 1..Len(received) :
              i <= Len(sent) /\ DerivedFrom(received[i], sent[i])

\* number of upstream elements whose loop iteration is over
Processed == nRead - (IF pc = "send" THEN 1 ELSE 0)

\* C2: a nil element read from upstream is written to the output, unchanged,
\* at the position it had upstream.
C2_NilForwarded ==
    \A i \in 1..Processed :
        sent[i] = <<>> => (i <= Len(Written) /\ Written[i] = <<>>)

\* pointers of the non-nil elements the goroutine has received
ReadPtrs == {i \in 1..nRead : sent[i] # <<>>}

WrittenPtrs == {Written[i][1].ptr : i \in {j \in 1..Len(Written) : Written[j] # <<>>}}

\* C3: textStream is closed exactly once, only after chatStream is closed and
\* drained and after every message the goroutine received and kept has been
\* written; nothing is sent on the closed channel and it is not closed twice.
C3_ClosedOnceAfterFlush ==
    /\ closeCount <= 1
    /\ ~sendOnClosed
    /\ outClosed =>
        /\ closeCount = 1
        /\ upClosed
        /\ chatStream = <<>>
        /\ nRead = Len(sent)
        /\ pc # "send"
        /\ streamMsg = <<>>
        /\ WrittenPtrs = ReadPtrs

C3_Witness ==
    /\ outClosed
    /\ Len(sent) = 3
    /\ Len(received) = 2
    /\ Len(textStream) = 1

\* C4: once chatStream is closed the goroutine eventually closes textStream
\* and returns, whether or not the caller keeps reading.
C4_RelayTerminates == (pc # "none" /\ upClosed) ~> (pc = "done" /\ outClosed)

\* messages the goroutine has received and still retains: the one it holds
\* for the blocked send and those buffered in textStream
Retained == Len(textStream) + (IF pc = "send" THEN 1 ELSE 0)

\* C5: the goroutine retains at most bufferSize + 1 messages (these are the
\* non-nil messages read and not yet received by the caller), and while it
\* is blocked on a full textStream it receives nothing more from upstream.
C5_BackPressure ==
    /\ Retained <= outCap + 1
    /\ Retained = Cardinality(ReadPtrs) - Len(received)
    /\ (pc = "send" /\ Len(textStream) >= outCap) =>
          (~ENABLED RelayRecv /\ ~ENABLED UpSendUnbuffered)

C5_Witness ==
    /\ pc = "send"
    /\ Len(textStream) = outCap
    /\ Retained = outCap + 1
    /\ chatStream # <<>>

\* every non-nil message the goroutine has finished transforming
Emitted ==
    {Written[i][1] : i \in {j \in 1..Len(Written) : Written[j] # <<>>}}
    \cup (IF pc = "send" THEN {streamMsg[1]} ELSE {})

Source(out) == sent[out.ptr][1]

\* Text of the chat choice as the claims state it
DeltaText(choice) ==
    IF choice.DeltaContent # <<>> THEN choice.DeltaContent[1] ELSE ""

FinalElseDeltaText(choice) ==
    IF choice.MessageContent # <<>> THEN choice.MessageContent[1]
    ELSE DeltaText(choice)

\* the envelope of a transformed chat message: a text response and no chat
\* response, tagged text-completion-stream, one text choice per chat choice
ChatEnvelopeOK(out, src) ==
    /\ out.BifrostChatResponse = <<>>
    /\ out.BifrostTextCompletionResponse # <<>>
    /\ out.BifrostError = src.BifrostError
    /\ out.BifrostTextCompletionResponse[1].ExtraFields.RequestType
          = TextCompletionStreamRequest
    /\ Len(out.BifrostTextCompletionResponse[1].Choices)
          = Len(src.BifrostChatResponse[1].Choices)

IsBlank(str) == \A i \in 1..Len(str) : str[i] = " "

\* the alias map of a key: the function with the empty domain when the key
\* carries no configuration
AliasMap(k) ==
    IF k.HuggingFaceKeyConfig = <<>> THEN <<>>
    ELSE k.HuggingFaceKeyConfig[1].Deployments

\* the reference of the specification, section 4.1
ReferenceResolve(k, m) ==
    IF m \notin DOMAIN AliasMap(k) \/ IsBlank(AliasMap(k)[m])
    THEN <<m, FALSE>>
    ELSE <<AliasMap(k)[m], AliasMap(k)[m] # m>>

\* C7: resolveModelAlias(key, m) is (m, false) when the key has no alias
\* map, no entry for m, or an empty or whitespace-only entry, and
\* (mapped, mapped # m) otherwise; the key and the request are left as they
\* were.
C7_AliasReference ==
    call.op = "resolveModelAlias" =>
        <<call.resolved, call.changed>> = ReferenceResolve(key, heap[CallerReq].Model)

C7_Witness ==
    /\ call.op = "resolveModelAlias"
    /\ heap[CallerReq].Model = <<"a">>
    /\ AliasMap(key) = (<<"a">> :> <<"b">>)
    /\ call.resolved = <<"b">>
    /\ call.changed

PrepareOps == {"prepareChatRequest", "prepareTextRequest", "prepareEmbeddingRequest"}

\* one call of a prepare function leaves the caller's request as it was; when the
\* resolved name differs it returns a new request, equal to the caller's but
\* for Model, which is the resolved name; when it does not differ it returns
\* the caller's request and allocates nothing.
C8_PrepareStep ==
    (call.op = "none" /\ call'.op \in PrepareOps) =>
        LET resolved == ReferenceResolve(key, heap[CallerReq].Model)[1] IN
        /\ heap'[CallerReq] = heap[CallerReq]
        /\ call'.resolved = resolved
        /\ IF resolved # heap[CallerReq].Model
           THEN /\ call'.ret # CallerReq
                /\ call'.ret \notin DOMAIN heap
                /\ call'.ret \in DOMAIN heap'
                /\ heap'[call'.ret] = [heap[CallerReq] EXCEPT !.Model = resolved]
           ELSE /\ call'.ret = CallerReq
                /\ heap' = heap

\* C8: every step of prepareChatRequest, prepareTextRequest and
\* prepareEmbeddingRequest keeps the caller's request and returns a derived
\* copy exactly when the resolved name differs.
C8_CallerRequestKept == [][C8_PrepareStep]_vars

C8_Witness ==
    /\ call.op = "prepareTextRequest"
    /\ call.ret # CallerReq
    /\ heap[CallerReq].Model = <<"a">>
    /\ heap[call.ret].Model = <<"b">>

Handlers == {"ChatCompletion", "ChatCompletionStream", "TextCompletion",
             "TextCompletionStream", "Embedding", "Responses", "ResponsesStream"}

\* C9: in every model-bearing operation the model of the request handed to
\* the transport is the alias-resolved model of the caller's request.
C9_TransportModel ==
    (call.op \in Handlers /\ call.transport # <<>>) =>
        call.transport[1] = ReferenceResolve(key, heap[CallerReq].Model)[1]

\* the metadata rule of section 4.3 for a response to the caller's request
MetadataOK(extra) ==
    LET requested == heap[CallerReq].Model
        resolved == ReferenceResolve(key, requested)[1]
    IN /\ extra.ModelRequested = requested
       /\ (resolved = requested => extra.ModelDeployment = EmptyStr)
       /\ (resolved # requested => extra.ModelDeployment = resolved)

\* C10: every response returned (chat, text completion, embedding,
\* responses) and every text-completion stream message records the requested
\* model as ModelRequested, and ModelDeployment is empty when the resolved
\* model equals the requested model and is the resolved model when they
\* differ.
C10_Metadata ==
    /\ (call.op \in Handlers /\ call.resp # <<>>) =>
          MetadataOK(call.resp[1].ExtraFields)
    /\ \A out \in Emitted :
          out.BifrostTextCompletionResponse # <<>> =>
              MetadataOK(out.BifrostTextCompletionResponse[1].ExtraFields)

\* C11: convertChatToTextResponse yields a text response with the id, model,
\* system fingerprint and usage of the chat response and as many choices; each
\* choice's Text is the final message content if present, else the delta
\* content if present, else the empty string, and index, finish reason and
\* log-probabilities are those of the chat choice.
C11_ChatToText ==
    call.op = "convertChatToTextResponse" =>
        /\ call.out.ID = call.in.ID
        /\ call.out.Model = call.in.Model
        /\ call.out.SystemFingerprint = call.in.SystemFingerprint
        /\ call.out.Usage = call.in.Usage
        /\ Len(call.out.Choices) = Len(call.in.Choices)
        /\ \A i \in 1..Len(call.in.Choices) :
              /\ call.out.Choices[i].Text
                    = <<FinalElseDeltaText(call.in.Choices[i])>>
              /\ call.out.Choices[i].Index = call.in.Choices[i].Index
              /\ call.out.Choices[i].FinishReason
                    = call.in.Choices[i].FinishReason
              /\ call.out.Choices[i].LogProbs = call.in.Choices[i].LogProbs

C11_Witness ==
    /\ call.op = "convertChatToTextResponse"
    /\ Len(call.in.Choices) = MaxChoices
    /\ call.in.Choices[1].MessageContent = <<"Hi there">>
    /\ call.in.Choices[1].DeltaContent = <<"Hi">>
    /\ call.in.Choices[1].LogProbs = <<"lp">>
    /\ call.out.Choices[1].Text = <<"Hi there">>
    /\ call.out.Choices[1].LogProbs = <<"lp">>

\* the texts of an embedding input, a single text being a list of one
InputTexts(input) ==
    IF input = <<>> THEN <<>>
    ELSE IF input[1].Text # <<>> THEN <<input[1].Text[1]>>
    ELSE IF input[1].Texts # <<>> THEN input[1].Texts[1]
    ELSE <<>>

\* the sum of f over the indices 1..n
RECURSIVE SumTo(_, _)
SumTo(f, n) == IF n = 0 THEN 0 ELSE f[n] + SumTo(f, n - 1)

Max(a, b) == IF a >= b THEN a ELSE b

\* the number of characters of all the texts together
TotalCharacters(input) ==
    LET texts == InputTexts(input) IN
    SumTo([i \in 1..Len(texts) |-> Len(texts[i])], Len(texts))

UsageEstimated == call.op = "convertFromHuggingFaceEmbeddingResponse"
                  /\ call.out.Usage # <<>>

\* C12 as stated: for every embedding request (single text, list, empty,
\* whitespace-only, absent input) the estimated usage is
\* max(1, totalCharacters / 4) over all inputs, in both the prompt and the
\* total token count.
C12_TotalCharacters ==
    UsageEstimated =>
        /\ call.out.Usage[1].PromptTokens
              = Max(1, TotalCharacters(call.in.Input) \div 4)
        /\ call.out.Usage[1].TotalTokens
              = Max(1, TotalCharacters(call.in.Input) \div 4)

\* the number of whole groups of four bytes in a text
Quarters(text) ==
    LET bytes == Len(text) + Cardinality({i \in 1..Len(text) : text[i] = "é"})
    IN Cardinality({k \in 1..bytes : k % 4 = 0})

\* C12 as amended: usage is estimated exactly when the upstream returned at
\* least one vector; the estimate is 0 when the request has no input, and
\* otherwise max(1, sum over the texts of (bytes of the text) / 4 rounded
\* down per text); it is both the prompt and the total token count.
C12_PerTextQuarters ==
    call.op = "convertFromHuggingFaceEmbeddingResponse" =>
        LET texts == InputTexts(call.in.Input)
            estimate ==
               IF call.in.Input = <<>> THEN 0
               ELSE Max(1, SumTo([i \in 1..Len(texts) |-> Quarters(texts[i])],
                                 Len(texts)))
            vectors == IF call.in.hfResponse = <<>> THEN 0
                       ELSE Len(call.in.hfResponse[1])
        IN IF vectors = 0
           THEN call.out.Usage = <<>>
           ELSE call.out.Usage = <<[PromptTokens |-> estimate,
                                    TotalTokens |-> estimate]>>

C12_Witness ==
    /\ UsageEstimated
    /\ call.in.Input # <<>>
    /\ call.in.Input[1].Texts = <<<< <<"a", "a", "a", "a", "a">>, <<"a", "a", "a">> >>>>
    /\ call.out.Usage[1].PromptTokens = 1
    /\ call.out.Usage[1].TotalTokens = 1

\* the elements of a sequence
Range(seq) == {seq[i] : i \in 1..Len(seq)}

\* a label is, compared lower-cased, one of the words
IsOneOf(label, words) == ~label.padded /\ label.word \in words

\* the pipeline tag or some tag is one of the words; white space around the
\* pipeline tag is not counted as part of it
SomeLabelIn(in, words) ==
    \/ in.pipeline.word \in words
    \/ \E i \in 1..Len(in.tags) : IsOneOf(in.tags[i], words)

ChatValues ==
    {"text-generation", "text2text-generation", "summarization",
     "conversational", "chat-completion"}

EmbeddingValues ==
    {"text-embedding", "sentence-similarity", "feature-extraction",
     "embeddings"}

\* C13: for any pipeline tag and any list of tags (compared lower-cased) the
\* derived capability set contains chat, text-completion and responses iff
\* the pipeline tag or some tag is one of text-generation,
\* text2text-generation, summarization, conversational, chat-completion, and
\* contains embedding iff the pipeline tag or some tag is one of
\* text-embedding, sentence-similarity, feature-extraction, embeddings.
C13_Capabilities ==
    call.op = "deriveSupportedMethods" =>
        /\ (ChatMethods \subseteq Range(call.out))
              <=> SomeLabelIn(call.in, ChatValues)
        /\ (EmbeddingRequest \in Range(call.out))
              <=> SomeLabelIn(call.in, EmbeddingValues)

\* the number of elements of a sequence that satisfy Test
Count(seq, Test(_)) == Cardinality({i \in 1..Len(seq) : Test(seq[i])})

\* the provider key and "/" before a model id
Prefixed(modelID) == ProviderChars(GetProviderKey(provider)) \o <<"/">> \o modelID

\* C14: every catalog entry produced by convertHubEntriesToModels has a
\* non-empty upstream model id, a non-empty capability set and the id
\* "<provider>/<upstream-model-id>"; a row is dropped if and only if its model
\* id is empty or its derived capability set is empty.
C14_DropRule ==
    call.op = "convertHubEntriesToModels" =>
        /\ \A i \in 1..Len(call.out) :
              /\ call.out[i].HuggingFaceID # <<>>
              /\ call.out[i].SupportedMethods # <<>>
              /\ call.out[i].ID = Prefixed(call.out[i].HuggingFaceID)
        /\ \A id \in ModelIDs, methods \in SUBSET Range(MethodOrder) :
              Count(call.out, LAMBDA m : /\ m.HuggingFaceID = id
                                         /\ Range(m.SupportedMethods) = methods)
              = IF id = <<>> \/ methods = {} THEN 0
                ELSE Count(call.in, LAMBDA e :
                        /\ e.ModelID = id
                        /\ Range(deriveSupportedMethods(e.PipelineTag, e.Tags))
                              = methods)

C14_Witness ==
    /\ call.op = "convertHubEntriesToModels"
    /\ Len(call.in) = MaxEntries
    /\ call.in[1].ModelID = <<>> /\ call.in[1].PipelineTag = Lit("text-generation")
    /\ call.in[2].ModelID = <<"b">> /\ call.in[2].PipelineTag = Lit("robotics")
    /\ call.in[3].ModelID = <<"a">> /\ call.in[3].PipelineTag = Lit("text-generation")
    /\ Len(call.out) = 1
    /\ call.out[1].ID = Prefixed(<<"a">>)
    /\ Range(call.out[1].SupportedMethods) = ChatMethods

\* a stands at or before b in byte-wise lexicographic order
LexLeq(a, b) ==
    \E k \in 0..Len(a) :
        /\ k <= Len(b)
        /\ \A i \in 1..k : a[i] = b[i]
        /\ \/ k = Len(a)
           \/ k < Len(b) /\ ByteRank(a[k + 1]) < ByteRank(b[k + 1])

\* C15: the catalog list returned is sorted ascending by id for any input
\* order of the rows, and sorting neither adds nor removes entries: the
\* result holds each entry built from a kept row as often as the rows give it.
C15_SortedByID ==
    call.op = "convertHubEntriesToModels" =>
        /\ \A i, j \in 1..Len(call.out) :
              i < j => LexLeq(call.out[i].ID, call.out[j].ID)
        /\ Len(call.out) = Count(call.in, Keeps)
        /\ \A i \in 1..Len(call.in) :
              Keeps(call.in[i]) =>
                 LET model == HubModel(call.in[i], GetProviderKey(provider)) IN
                 Count(call.out, LAMBDA m : m = model)
                 = Count(call.in, LAMBDA e :
                      Keeps(e) /\ HubModel(e, GetProviderKey(provider)) = model)

C15_Witness ==
    /\ call.op = "convertHubEntriesToModels"
    /\ Len(call.in) = MaxEntries
    /\ call.in[1].ModelID = <<"b">>
    /\ call.in[2].ModelID = <<"a", "b">>
    /\ call.in[3].ModelID = <<"B">>
    /\ Len(call.out) = MaxEntries
    /\ call.out[1].ID = Prefixed(<<"B">>)
    /\ call.out[2].ID = Prefixed(<<"a", "b">>)
    /\ call.out[3].ID = Prefixed(<<"b">>)

\* the raw gated values that count as gated
GatedValues ==
    {[type |-> "bool", value |-> TRUE]}
    \cup {raw \in RawGated :
            raw.type = "string" /\ raw.value \notin {"", "false"}}

\* C17: the normalized gated flag of toHubEntry is true if and only if the
\* raw value is the boolean true or a string that is non-empty and not
\* "false"; any other raw type, absent included, gives false.
C17_GatedNormalized ==
    call.op = "toHubEntry" =>
        /\ call.out.Gated \in BOOLEAN
        /\ call.out.Gated <=> call.in.Gated \in GatedValues
        /\ call.out.ModelID = call.in.ModelID

C17_Witness ==
    /\ call.op = "toHubEntry"
    /\ call.in.Gated = [type |-> "string", value |-> "manual"]
    /\ call.out.Gated = TRUE

IsNumeral(v) == v # <<>> /\ \A i \in 1..Len(v) : v[i] \in Range(Digits)

\* the number a tuple of decimal digits denotes
RECURSIVE Numeral(_)
Numeral(v) ==
    IF v = <<>> THEN 0
    ELSE 10 * Numeral(SubSeq(v, 1, Len(v) - 1))
         + (CHOOSE d \in 0..9 : Digits[d + 1] = v[Len(v)])

\* C18: for every list-models request (any page size, any extra parameters)
\* the limit parameter of the URL built by buildModelHubURL is an integer
\* between 1 and 1000, 200 when the page size is <= 0 and otherwise
\* min(pageSize, 1000), and the URL carries the backend selector, full=1,
\* sort=likes and direction=-1.
C18_LimitAndFixedParameters ==
    call.op = "buildModelHubURL" =>
        LET query == call.out.query IN
        /\ {"inference_provider", "limit", "full", "sort", "direction"}
              \subseteq DOMAIN query
        /\ IsNumeral(query["limit"])
        /\ Numeral(query["limit"]) \in 1..1000
        /\ Numeral(query["limit"])
              = IF call.in.PageSize <= 0 THEN 200
                ELSE IF call.in.PageSize < 1000 THEN call.in.PageSize ELSE 1000
        /\ query["inference_provider"] = <<"hf-inference">>
        /\ query["full"] = <<"1">>
        /\ query["sort"] = <<"likes">>
        /\ query["direction"] = <<"-", "1">>

ErrorMappers == {"handleModelHubError", "parseHuggingFaceEmbeddingError"}

\* the message the rule gives for an error body whose fields are read by
\* Field: `message` if non-empty, else `error` if non-empty, else a text
\* that embeds the raw body
RuleHolds(out, resp, Field(_)) ==
    LET body == Unmarshal(resp) IN
    IF Field(body.Message) # <<>> THEN out.Error.Message = Field(body.Message)
    ELSE IF Field(body.Error) # <<>> THEN out.Error.Message = Field(body.Error)
    ELSE /\ Len(out.Error.Message) = 2
         /\ out.Error.Message[2] = resp.Body

Verbatim(field) == field

\* C19: every error mapper of the layer takes the message from whichever of
\* `message` and `error` of the decoded body is non-empty, preferring
\* `message` when both are; when neither is present the message embeds the
\* raw body. The fields are read either verbatim or with the white space
\* around them removed.
C19_PrefersMessage ==
    call.op \in ErrorMappers =>
        \/ RuleHolds(call.out, call.in.resp, Verbatim)
        \/ RuleHolds(call.out, call.in.resp, TrimSpace)

\* the request kind a mapper serves
MapperKind(op) ==
    IF op = "handleModelHubError" THEN ListModelsRequest ELSE EmbeddingRequest

\* C20: every canonical error built from an upstream error response carries
\* the provider's effective key (the custom provider's name when one is
\* configured), the originating request kind and the requested model when it
\* is known, whether or not the body decoded.
C20_ErrorMetadata ==
    call.op \in ErrorMappers =>
        /\ call.out.ExtraFields.Provider = GetProviderKey(provider)
        /\ call.out.ExtraFields.RequestType = MapperKind(call.op)
        /\ call.out.ExtraFields.ModelRequested = call.in.model

\* the ids of the catalog entries that a 200 answer of the hub yields
AnswerIDs(answer) ==
    {Prefixed(answer.rows[i].ModelID) :
        i \in {j \in 1..Len(answer.rows) : Keeps(toHubEntry(answer.rows[j]))}}

\* ListModels returned at once: the operation is not allowed
Refused ==
    /\ catalog.err # <<>>
    /\ catalog.err[1].Error.Message = <<OperationNotAllowed>>

\* the hub answered the queries of the fan-out, one of them with rows
FanOutAnswered ==
    /\ catalog.phase = "done"
    /\ Len(catalog.keys) > 0
    /\ \E i \in 1..Len(catalog.queries) : catalog.queries[i].answer.kind = "ok"

UnsupportedKinds ==
    [Speech |-> "speech", SpeechStream |-> "speech_stream",
     Transcription |-> "transcription",
     TranscriptionStream |-> "transcription_stream"]

\* C21: Speech, SpeechStream, Transcription and TranscriptionStream return a
\* nil result and an UnsupportedOperation error tagged with their own request
\* kind, in one step, for every request and provider, and hand no request to
\* the transport; no stream is started.
C21_Unsupported ==
    call.op \in DOMAIN UnsupportedKinds =>
        /\ call.out.result = <<>>
        /\ call.out.transport = <<>>
        /\ Len(call.out.err) = 1
        /\ call.out.err[1].Error.Message = <<UnsupportedOperation>>
        /\ call.out.err[1].ExtraFields.RequestType = UnsupportedKinds[call.op]
        /\ call.out.err[1].ExtraFields.Provider = GetProviderKey(provider)
        /\ pc = "none" /\ chatStream = <<>> /\ textStream = <<>>

C21_Witness ==
    /\ call.op = "TranscriptionStream"
    /\ call.in = <<"input">>
    /\ provider # DefaultProvider
    /\ call.out.err[1].ExtraFields.RequestType = "transcription_stream"
    /\ call.out.result = <<>>

\* C22: the output channel of TextCompletionStream has capacity
\* max(1, capacity of the upstream channel), it never holds more than that,
\* and the capacity does not change while the stream lives.
C22_OutputCapacity ==
    [][/\ pc' # "none" =>
            /\ outCap' = (IF upCap' > 1 THEN upCap' ELSE 1)
            /\ Len(textStream') <= outCap'
       /\ pc # "none" => (outCap' = outCap /\ upCap' = upCap)]_vars

C22_Witness ==
    /\ pc = "send"
    /\ upCap = 0
    /\ outCap = 1
    /\ Len(textStream) = 1
    /\ Len(received) >= 1

\* the metadata of the text-completion messages the relay has produced
TextMetadata ==
    {<<out.BifrostTextCompletionResponse[1].ExtraFields.ModelRequested,
       out.BifrostTextCompletionResponse[1].ExtraFields.ModelDeployment>> :
        out \in {o \in Emitted : o.BifrostTextCompletionResponse # <<>>}}

\* C23: the alias is resolved once per TextCompletionStream request (the
\* resolved model does not change while the stream lives) and all the
\* text-completion messages of the stream carry one ModelRequested and one
\* ModelDeployment, whatever the upstream sends.
C23_OneResolution ==
    [][/\ pc # "none" => resolvedModel' = resolvedModel
       /\ Cardinality(TextMetadata') <= 1]_vars

C23_Witness ==
    /\ resolvedModel # heap[CallerReq].Model
    /\ TextMetadata = {<<heap[CallerReq].Model, resolvedModel>>}
    /\ \E i, j \in 1..Len(received) :
          /\ i < j
          /\ received[i] # <<>> /\ received[j] # <<>>
          /\ received[i][1].BifrostTextCompletionResponse # <<>>
          /\ received[j][1].BifrostTextCompletionResponse # <<>>
          /\ received[i][1].BifrostTextCompletionResponse[1].Choices #
                received[j][1].BifrostTextCompletionResponse[1].Choices

\* C24: decorateResponseMetadata applied twice with the same arguments gives
\* the record it gives applied once, and the record it gives differs from
\* its argument in no field other than ModelRequested and ModelDeployment.
C24_DecorateIdempotent ==
    call.op = "decorateResponseMetadata" =>
        /\ call.out.twice = call.out.once
        /\ (call.in.extra = <<>>) = (call.out.once = <<>>)
        /\ call.in.extra # <<>> =>
              \A f \in DOMAIN call.in.extra[1] \ {"ModelRequested", "ModelDeployment"} :
                  call.out.once[1][f] = call.in.extra[1][f]

C24_Witness ==
    /\ call.op = "decorateResponseMetadata"
    /\ call.in.extra # <<>>
    /\ call.in.extra[1].ModelRequested = <<"b">>
    /\ call.in.extra[1].ModelDeployment = EmptyStr
    /\ call.in.requestedModel = <<"a">>
    /\ call.in.resolvedModel = <<"b">>
    /\ call.out.once[1].ModelRequested = <<"a">>
    /\ call.out.once[1].ModelDeployment = <<"b">>
    /\ call.out.once # call.in.extra

\* C25: the wire embedding request keeps the shape of the input (a single
\* string stays a string, a list stays a list) and carries each of normalize,
\* prompt name and truncate that the canonical request has.
C25_WireEmbeddingRequest ==
    call.op = "convertToHuggingFaceEmbeddingRequest" =>
        LET input == call.in.Input
            params == call.in.Params
            wire == call.out
        IN /\ (input # <<>> /\ input[1].Text # <<>>) =>
                 wire.Inputs = <<[kind |-> "string", value |-> input[1].Text[1]]>>
           /\ (input # <<>> /\ input[1].Text = <<>> /\ input[1].Texts # <<>>) =>
                 wire.Inputs = <<[kind |-> "list", value |-> input[1].Texts[1]]>>
           /\ params # <<>> =>
                 /\ params[1].Normalize # <<>> => wire.Normalize = params[1].Normalize
                 /\ params[1].PromptName # <<>> => wire.PromptName = params[1].PromptName
                 /\ params[1].Truncate # <<>> => wire.Truncate = params[1].Truncate

\* C26: after any ListModels call (no key, one key or several, success or
\* failure) the request the caller supplied has in every field the value it
\* had before the call.
C26_RequestUntouched ==
    catalog.phase # "none" => catalog.caller.now = catalog.caller.before

====
